---- MODULE Spec2Model ----
(***************************************************************************)
(* A model of stl_file_to_minecraft.py: the STL parsers (text and binary), *)
(* the coordinate transform, the DDA voxelizer and the main pipeline.      *)
(*                                                                         *)
(* The input file is a sequence of bytes (0..255).  Python floats are      *)
(* IEEE-754 doubles; the stepping arithmetic of the voxelizer is modelled  *)
(* bit-exactly (53-bit significand, round-to-nearest-even), because the    *)
(* voxel a step lands on depends on the rounding of d/max_delta.           *)
(***************************************************************************)
EXTENDS Integers, Sequences, FiniteSets, TLC

VARIABLES
    fh,             \* the open file: [bytes, pos]
    pc,             \* position of main
    header_prefix,  \* main: the decoded 5-byte prefix
    triangles,      \* main: the parsed triangle list
    count,          \* main: index of the next triangle of the voxelizing loop
    run,            \* main: blocks (dict keys in insertion order), the max_delta values used, a raised error
    min_vector,     \* main: running bounding box
    max_vector,
    error,          \* the exception that ended main, "none" while it runs
    line_args       \* arguments of a stand-alone compute_line_blocks call

vars == <<fh, pc, header_prefix, triangles, count, run, min_vector, max_vector, error, line_args>>

----------------------------------------------------------------------------
(* Bounds *)

MaxSpan == 22       \* largest x and y difference of a stand-alone segment
MaxDegenerate == 4  \* largest x and y offset of Q from P in a two-point triangle
MaxTri == 1         \* largest |x|, |y| of v2, v3 of a general triangle
MaxFacets == 2      \* facets of a generated text file / records of a binary one

----------------------------------------------------------------------------
(* Small helpers *)

Abs(x) == IF x < 0 THEN -x ELSE x
Min2(a, b) == IF a < b THEN a ELSE b
Max2(a, b) == IF a > b THEN a ELSE b
SetMin(S) == CHOOSE x \in S : \A y \in S : x <= y
SetMax(S) == CHOOSE x \in S : \A y \in S : x >= y

Pow2Table == <<1, 2, 4, 8, 16, 32, 64, 128, 256, 512, 1024, 2048, 4096, 8192, 16384, 32768,
               65536, 131072, 262144, 524288, 1048576, 2097152, 4194304, 8388608, 16777216,
               33554432, 67108864, 134217728, 268435456, 536870912, 1073741824>>
Pow2(k) == Pow2Table[k + 1]

\* number of bits of n: 0 for n <= 0
BitLength(n) == Cardinality({k \in 0..30 : Pow2Table[k + 1] <= n})

----------------------------------------------------------------------------
(* IEEE-754 double arithmetic on the values the stepping code produces.    *)
(* A non-negative double is [int, frac]: int + sum of frac[j] / Base^j.    *)

Base == 65536
LimbBits == 16
Limbs == 5
Mantissa == 53

ZeroFrac == [j \in 1..Limbs |-> 0]
IsZeroFrac(F) == \A j \in 1..Limbs : F[j] = 0

LeadingZeros(F) ==
    IF IsZeroFrac(F) THEN Limbs * LimbBits
    ELSE LET j == SetMin({i \in 1..Limbs : F[i] # 0})
         IN (j - 1) * LimbBits + (LimbBits - BitLength(F[j]))

\* add w (a power of two below or equal to Base) to limb j, rippling the carry upwards
AddAt(I, F, j, w) ==
    LET v == F[j] + w
        Reaches(i) == v >= Base /\ \A k \in (i + 1)..(j - 1) : F[k] = Base - 1
    IN [int |-> IF Reaches(0) THEN I + 1 ELSE I,
        frac |-> [i \in 1..Limbs |->
                    IF i = j THEN v % Base
                    ELSE IF i < j /\ Reaches(i) THEN (F[i] + 1) % Base
                    ELSE F[i]]]

\* the nearest double, ties to even, of I + .F (+ a non-zero tail below F when sticky)
RoundToDouble(I, F, sticky) ==
    LET K == IF I > 0 THEN Mantissa - BitLength(I) ELSE LeadingZeros(F) + Mantissa
    IN IF K >= Limbs * LimbBits THEN [int |-> I, frac |-> F]
       ELSE LET j == (K \div LimbBits) + 1
                o == K % LimbBits
                w == Pow2(LimbBits - o)
                low == F[j] % w
                guard == low >= w \div 2
                rest == low % (w \div 2) # 0 \/ (\E i \in (j + 1)..Limbs : F[i] # 0) \/ sticky
                odd == IF o >= 1 THEN (F[j] \div w) % 2 = 1
                       ELSE IF j >= 2 THEN F[j - 1] % 2 = 1
                       ELSE I % 2 = 1
                kept == [i \in 1..Limbs |-> IF i < j THEN F[i] ELSE IF i = j THEN F[j] - low ELSE 0]
            IN IF guard /\ (rest \/ odd) THEN AddAt(I, kept, j, w) ELSE [int |-> I, frac |-> kept]

\* float(d) / float(m) for integers d >= 0, m >= 1
FDiv(d, m) ==
    LET r0 == d % m
        r1 == (r0 * Base) % m
        r2 == (r1 * Base) % m
        r3 == (r2 * Base) % m
        r4 == (r3 * Base) % m
        r5 == (r4 * Base) % m
    IN RoundToDouble(d \div m,
                     <<(r0 * Base) \div m, (r1 * Base) \div m, (r2 * Base) \div m,
                       (r3 * Base) \div m, (r4 * Base) \div m>>,
                     r5 # 0)

\* s * q for an integer s >= 0 and a double q >= 0
FMulInt(s, q) ==
    LET v5 == q.frac[5] * s
        v4 == q.frac[4] * s + (v5 \div Base)
        v3 == q.frac[3] * s + (v4 \div Base)
        v2 == q.frac[2] * s + (v3 \div Base)
        v1 == q.frac[1] * s + (v2 \div Base)
    IN RoundToDouble(q.int * s + (v1 \div Base),
                     <<v1 % Base, v2 % Base, v3 % Base, v4 % Base, v5 % Base>>, FALSE)

\* 1 - .F for a non-zero fraction F
Compl(F) ==
    LET k == SetMax({i \in 1..Limbs : F[i] # 0})
    IN [i \in 1..Limbs |-> IF i < k THEN Base - 1 - F[i] ELSE IF i = k THEN Base - F[i] ELSE 0]

\* Python's round(x) of a double x >= 0: half to even
PyRound(u) ==
    LET half == Base \div 2
        up == u.frac[1] > half
              \/ (u.frac[1] = half /\ ((\E i \in 2..Limbs : u.frac[i] # 0) \/ u.int % 2 = 1))
    IN IF up THEN u.int + 1 ELSE u.int

\* round(a + sign * t) for an int a and a double t >= 0: the sum is rounded
\* to a double first, then to an int
RoundSum(a, sign, t) ==
    LET whole == sign > 0 \/ IsZeroFrac(t.frac)
        N == IF whole THEN a + sign * t.int ELSE a - t.int - 1
        F == IF whole THEN t.frac ELSE Compl(t.frac)
        neg == N < 0
        mI == IF ~neg THEN N ELSE IF IsZeroFrac(F) THEN -N ELSE -N - 1
        mF == IF ~neg \/ IsZeroFrac(F) THEN F ELSE Compl(F)
        r == PyRound(RoundToDouble(mI, mF, FALSE))
    IN IF neg THEN -r ELSE r

StepCoord_unsigned(a, dvi, max_delta, diff, step) ==
    RoundSum(a, IF dvi < 0 THEN -1 ELSE 1, FMulInt(step, FDiv(Abs(dvi), max_delta)))

\* round(a + step * (float(dvi) / float(max_delta) * (1 if diff > 0 else -1)))
StepCoord(a, dvi, max_delta, diff, step) ==
    LET sgn == (IF dvi < 0 THEN -1 ELSE 1) * (IF diff > 0 THEN 1 ELSE -1)
    IN RoundSum(a, sgn, FMulInt(step, FDiv(Abs(dvi), max_delta)))

----------------------------------------------------------------------------
(* Vector: a 3-tuple of numbers *)

ZERO_VECTOR_3D == <<0, 0, 0>>

Vector_sub(self, v) == [i \in 1..3 |-> self[i] - v[i]]

Vector_abs_identity(self) == self

Vector_abs(self) == [i \in 1..3 |-> Abs(self[i])]

Vector_equals(self, v) == \A i \in 1..3 : self[i] = v[i]

\* max(dv.points)
MaxPoint(points) == SetMax({points[i] : i \in 1..3})

\* None is the empty tuple, a number x is <<x>>; v is a vertex (never None)
Vector_min(self, v) == [i \in 1..3 |-> IF self[i] = << >> THEN <<v[i]>> ELSE <<Min2(self[i][1], v[i])>>]

Vector_max(self, v) == [i \in 1..3 |-> IF self[i] = << >> THEN <<v[i]>> ELSE <<Max2(self[i][1], v[i])>>]

NoneVector == << << >>, << >>, << >> >>

----------------------------------------------------------------------------
(* The voxelizer.  blocks is the dict of main: its keys in insertion order *)
(* (every value stored is 1).  A run is [blocks, deltas, err]: deltas      *)
(* collects every value max_delta takes, err is the exception raised.      *)

EmptyRun == [blocks |-> << >>, deltas |-> {}, err |-> "none"]

dict_set_append(blocks, key) == Append(blocks, key)

\* blocks[key] = 1
dict_set(blocks, key) ==
    IF \E i \in 1..Len(blocks) : blocks[i] = key THEN blocks ELSE Append(blocks, key)

Keys(blocks) == {blocks[i] : i \in 1..Len(blocks)}

StepPoint(v1, v2, dv, max_delta, step) ==
    [i \in 1..3 |-> StepCoord(v1[i], dv[i], max_delta, v2[i] - v1[i], step)]

RECURSIVE line_loop_inclusive(_, _, _, _, _, _)
line_loop_inclusive(v1, v2, dv, max_delta, step, st) ==
    IF step > max_delta THEN st
    ELSE line_loop_inclusive(v1, v2, dv, max_delta, step + 1,
                   [st EXCEPT !.blocks = dict_set(@, StepPoint(v1, v2, dv, max_delta, step))])

\* for step in range(0, max_delta): blocks[(round(...), round(...), round(...))] = 1
RECURSIVE line_loop(_, _, _, _, _, _)
line_loop(v1, v2, dv, max_delta, step, st) ==
    IF step >= max_delta THEN st
    ELSE line_loop(v1, v2, dv, max_delta, step + 1,
                   [st EXCEPT !.blocks = dict_set(@, StepPoint(v1, v2, dv, max_delta, step))])

compute_line_blocks(v1, v2, st) ==
    LET dv == Vector_abs(Vector_sub(v2, v1))
        max_delta == MaxPoint(dv)
    IN IF Vector_equals(dv, ZERO_VECTOR_3D)
       THEN [st EXCEPT !.blocks = dict_set(@, v1)]
       ELSE IF max_delta = 0
       THEN [st EXCEPT !.deltas = @ \cup {max_delta}, !.err = "ZeroDivisionError"]
       ELSE line_loop(v1, v2, dv, max_delta, 0, [st EXCEPT !.deltas = @ \cup {max_delta}])

\* for step in range(0, max_delta): compute_line_blocks(Vector([x, y, z]), v3, blocks)
RECURSIVE triangle_loop(_, _, _, _, _, _, _)
triangle_loop(v1, v2, v3, dv, max_delta, step, st) ==
    IF step >= max_delta \/ st.err # "none" THEN st
    ELSE triangle_loop(v1, v2, v3, dv, max_delta, step + 1,
                       compute_line_blocks(StepPoint(v1, v2, dv, max_delta, step), v3, st))

compute_triangle_blocks(v1, v2, v3, st) ==
    LET dv == Vector_abs(Vector_sub(v2, v1))
        max_delta == MaxPoint(dv)
    IN IF st.err # "none" THEN st
       ELSE IF Vector_equals(dv, ZERO_VECTOR_3D)
       THEN [st EXCEPT !.blocks = dict_set(@, v1)]
       ELSE IF max_delta = 0
       THEN [st EXCEPT !.deltas = @ \cup {max_delta}, !.err = "ZeroDivisionError"]
       ELSE triangle_loop(v1, v2, v3, dv, max_delta, 0, [st EXCEPT !.deltas = @ \cup {max_delta}])

compute_blocks_first_rotation(triangle, st) ==
    compute_triangle_blocks(triangle.v1, triangle.v2, triangle.v3, st)

compute_blocks(triangle, st) ==
    compute_triangle_blocks(triangle.v3, triangle.v1, triangle.v2,
        compute_triangle_blocks(triangle.v2, triangle.v3, triangle.v1,
            compute_triangle_blocks(triangle.v1, triangle.v2, triangle.v3, st)))

Triangle(v1, v2, v3) == [v1 |-> v1, v2 |-> v2, v3 |-> v3]

----------------------------------------------------------------------------
(* The file object: bytes and a read position (main opens it with "rb") *)

tell(f) == f.pos

\* fh.read(length): the bytes read and the file after the read
read(f, length) ==
    LET end == Min2(f.pos + length, Len(f.bytes))
    IN [data |-> SubSeq(f.bytes, f.pos + 1, end), fh |-> [f EXCEPT !.pos = end]]

seek_nowhere(f, position) == f

seek(f, position) == [f EXCEPT !.pos = position]

\* fh.readline(): up to and including the next newline, or to the end of the file
readline(f) ==
    LET n == Len(f.bytes)
        hasNewline == \E i \in (f.pos + 1)..n : f.bytes[i] = 10
        end == IF hasNewline
               THEN CHOOSE i \in (f.pos + 1)..n :
                        f.bytes[i] = 10 /\ \A j \in (f.pos + 1)..(i - 1) : f.bytes[j] # 10
               ELSE n
    IN [data |-> SubSeq(f.bytes, f.pos + 1, end), fh |-> [f EXCEPT !.pos = end]]

peek(f, length) ==
    LET position == tell(f)
        r == read(f, length)
    IN [data |-> r.data, fh |-> seek(r.fh, position)]

----------------------------------------------------------------------------
(* bytes.decode("utf-8"), str.startswith, str.split, float(str).  A str is *)
(* kept as its UTF-8 bytes.                                                 *)

IsContinuation(x) == 128 <= x /\ x <= 191

\* length of the sequence a lead byte announces, 0 for a byte that cannot lead
LeadLength(x) ==
    IF x <= 127 THEN 1
    ELSE IF 194 <= x /\ x <= 223 THEN 2
    ELSE IF 224 <= x /\ x <= 239 THEN 3
    ELSE IF 240 <= x /\ x <= 244 THEN 4
    ELSE 0

SecondByteOK(lead, x) ==
    IF lead = 224 THEN 160 <= x /\ x <= 191
    ELSE IF lead = 237 THEN 128 <= x /\ x <= 159
    ELSE IF lead = 240 THEN 144 <= x /\ x <= 191
    ELSE IF lead = 244 THEN 128 <= x /\ x <= 143
    ELSE IsContinuation(x)

ValidSequenceAt(b, i) ==
    LET L == LeadLength(b[i])
    IN /\ L >= 1
       /\ i + L - 1 <= Len(b)
       /\ L >= 2 => SecondByteOK(b[i], b[i + 1])
       /\ \A k \in 2..(L - 1) : IsContinuation(b[i + k])

\* decode("utf-8") succeeds (otherwise it raises UnicodeDecodeError)
Utf8Valid(b) ==
    \A i \in 1..Len(b) :
        IF IsContinuation(b[i])
        THEN \E k \in 1..3 : i - k >= 1 /\ LeadLength(b[i - k]) > k /\ ValidSequenceAt(b, i - k)
        ELSE ValidSequenceAt(b, i)

startswith(s, prefix) == Len(s) >= Len(prefix) /\ SubSeq(s, 1, Len(prefix)) = prefix

\* the whitespace str.split() separates on (the ASCII part of it)
IsSpace(x) == x \in {9, 10, 11, 12, 13, 28, 29, 30, 31, 32}

\* s.split()
split(s) ==
    LET starts == {i \in 1..Len(s) : ~IsSpace(s[i]) /\ (i = 1 \/ IsSpace(s[i - 1]))}
        StartOf(k) == CHOOSE i \in starts : Cardinality({j \in starts : j < i}) = k - 1
        EndOf(i) == CHOOSE j \in i..Len(s) :
                        (j = Len(s) \/ IsSpace(s[j + 1])) /\ \A m \in i..j : ~IsSpace(s[m])
    IN [k \in 1..Cardinality(starts) |-> SubSeq(s, StartOf(k), EndOf(StartOf(k)))]

\* s[1:4] of a list
Slice1to4(l) == SubSeq(l, 2, Min2(4, Len(l)))

IsDigit(x) == 48 <= x /\ x <= 57

RECURSIVE DigitsValue(_)
DigitsValue(ds) == IF ds = << >> THEN 0 ELSE 10 * DigitsValue(SubSeq(ds, 1, Len(ds) - 1)) + (ds[Len(ds)] - 48)

Pow10(k) == IF k = 0 THEN 1 ELSE IF k = 1 THEN 10 ELSE IF k = 2 THEN 100 ELSE IF k = 3 THEN 1000 ELSE 10000

Number(n, d) == [kind |-> "num", num |-> n, den |-> d]
NotANumber == [kind |-> "nan", num |-> 0, den |-> 0]
Infinity(negative) == [kind |-> "inf", num |-> IF negative THEN -1 ELSE 1, den |-> 0]
OtherFinite == [kind |-> "other", num |-> 0, den |-> 1]
NoFloat == [kind |-> "ValueError", num |-> 0, den |-> 0]

\* float(s) for the decimal literals [sign] digits [. digits] of at most 4 + 4
\* digits; every other token of the generated files is not a number and
\* raises ValueError (exponents, "inf", "nan" and "_" do not occur in them)
float(s) ==
    LET signed == Len(s) >= 1 /\ s[1] \in {43, 45}
        body == IF signed THEN SubSeq(s, 2, Len(s)) ELSE s
        dots == {i \in 1..Len(body) : body[i] = 46}
        dot == IF dots = {} THEN Len(body) + 1 ELSE CHOOSE i \in dots : TRUE
        whole == SubSeq(body, 1, dot - 1)
        fraction == SubSeq(body, dot + 1, Len(body))
        wellFormed == /\ Cardinality(dots) <= 1
                      /\ \A i \in 1..Len(body) : IsDigit(body[i]) \/ body[i] = 46
                      /\ Len(whole) + Len(fraction) >= 1
                      /\ Len(whole) <= 4 /\ Len(fraction) <= 4
        magnitude == DigitsValue(whole) * Pow10(Len(fraction)) + DigitsValue(fraction)
    IN IF ~wellFormed THEN NoFloat
       ELSE Number(IF signed /\ s[1] = 45 THEN -magnitude ELSE magnitude, Pow10(Len(fraction)))

----------------------------------------------------------------------------
(* struct.unpack *)

\* struct.unpack("<I", b)[0] as <<high 16 bits, low 16 bits>>
unpack_I(b) == <<b[4] * 256 + b[3], b[2] * 256 + b[1]>>

\* count in range(1, num_triangles), for a count below 65536
InRange1(c, num_triangles) == c >= 1 /\ (num_triangles[1] > 0 \/ c < num_triangles[2])

\* struct.unpack("<f", b)[0]: exact for 2^-8 <= |x| < 2^7 with at most 8
\* fractional bits; a finite value outside that range is OtherFinite
unpack_f(b) ==
    LET negative == b[4] >= 128
        e == (b[4] % 128) * 2 + (b[3] \div 128)
        m == (b[3] % 128) * 65536 + b[2] * 256 + b[1]
        full == 8388608 + m
        shift == 150 - e - 8
    IN IF e = 255 THEN (IF m = 0 THEN Infinity(negative) ELSE NotANumber)
       ELSE IF e = 0 /\ m = 0 THEN Number(0, 1)
       ELSE IF 119 <= e /\ e <= 133 /\ full % Pow2(shift) = 0
       THEN Number((IF negative THEN -1 ELSE 1) * (full \div Pow2(shift)), 256)
       ELSE OtherFinite

\* struct.unpack("<fff", b)
unpack_fff(b) == <<unpack_f(SubSeq(b, 1, 4)), unpack_f(SubSeq(b, 5, 8)), unpack_f(SubSeq(b, 9, 12))>>

----------------------------------------------------------------------------
(* transform, with the default --origin, --x_unit, --y_unit, --z_unit *)

origin_vector == <<0, 0, 0>>
unit_vectors == << <<1, 0, 0>>, <<0, 0, 1>>, <<0, 1, 0>> >>

\* round-half-to-even of the rational n / d, d > 0: Python's round() of a
\* double that holds n / d exactly (or a decimal literal of a few digits)
RoundHalfEven(n, d) ==
    LET fl == IF n >= 0 THEN n \div d ELSE -((-n + d - 1) \div d)
        r2 == 2 * (n - fl * d)
    IN IF r2 > d \/ (r2 = d /\ fl % 2 # 0) THEN fl + 1 ELSE fl

\* component j of unit_vectors[0]*vertex[0] + unit_vectors[1]*vertex[1]
\* + unit_vectors[2]*vertex[2] + origin_vector, rounded: an int, or the
\* exception round() raises on nan and inf
TransformComponent(vertex, origin, units, j) ==
    LET nan == \/ \E i \in 1..3 : vertex[i].kind = "nan"
               \/ \E i \in 1..3 : vertex[i].kind = "inf" /\ units[i][j] = 0
               \/ \E i, k \in 1..3 : /\ vertex[i].kind = "inf" /\ vertex[k].kind = "inf"
                                      /\ vertex[i].num * units[i][j] * vertex[k].num * units[k][j] < 0
        inf == \E i \in 1..3 : vertex[i].kind = "inf"
        used == {i \in 1..3 : units[i][j] # 0}
        D == SetMax({vertex[i].den : i \in used} \cup {1})
    IN IF nan THEN [err |-> "ValueError", value |-> 0]
       ELSE IF inf THEN [err |-> "OverflowError", value |-> 0]
       ELSE IF \E i \in used : vertex[i].kind = "other" THEN [err |-> "none", value |-> "unmodelled"]
       ELSE LET T(i) == IF i \in used THEN units[i][j] * vertex[i].num * (D \div vertex[i].den) ELSE 0
            IN [err |-> "none", value |-> RoundHalfEven(T(1) + T(2) + T(3) + origin[j] * D, D)]

\* transform(vertex, origin_vector, unit_vectors): vertex[0..2] are read
\* first (IndexError on a short list), round() runs over the components in order
transform(vertex, origin, units) ==
    LET c == [j \in 1..3 |-> TransformComponent(vertex, origin, units, j)]
        bad == {j \in 1..3 : c[j].err # "none"}
    IN IF Len(vertex) < 3 THEN [err |-> "IndexError", v |-> << >>]
       ELSE IF bad # {} THEN [err |-> c[SetMin(bad)].err, v |-> << >>]
       ELSE [err |-> "none", v |-> [j \in 1..3 |-> c[j].value]]

----------------------------------------------------------------------------
(* The parsers.  Each returns [err, triangles, fh]: err is "none" on a     *)
(* normal return, otherwise the exception raised; triangles is the local   *)
(* list at that moment.                                                     *)

Outcome(err, ts, f) == [err |-> err, triangles |-> ts, fh |-> f]

ENDSOLID == <<101, 110, 100, 115, 111, 108, 105, 100>>
SOLID == <<115, 111, 108, 105, 100>>

\* the first of the given checks that fails, "none" when all pass
FirstError(checks) ==
    LET failing == {i \in 1..Len(checks) : checks[i] # "none"}
    IN IF failing = {} THEN "none" ELSE checks[SetMin(failing)]

\* float(data) over vertex1, vertex2, vertex3 in turn
FloatErrors(tokens) ==
    IF \E i \in 1..Len(tokens) : float(tokens[i]).kind = "ValueError" THEN "ValueError" ELSE "none"

Floats(tokens) == [i \in 1..Len(tokens) |-> float(tokens[i])]

\* one iteration of "for count, normal_vector in enumerate(fh)" and the rest of the loop
RECURSIVE ascii_loop(_, _, _, _)
ascii_loop(f, ts, origin, units) ==
    LET normal_vector == readline(f)
        outer_loop == readline(normal_vector.fh)
        line1 == readline(outer_loop.fh)
        line2 == readline(line1.fh)
        line3 == readline(line2.fh)
        endloop == readline(line3.fh)
        endfacet == readline(endloop.fh)
        vertex1 == Slice1to4(split(line1.data))
        vertex2 == Slice1to4(split(line2.data))
        vertex3 == Slice1to4(split(line3.data))
        v1 == transform(Floats(vertex1), origin, units)
        v2 == transform(Floats(vertex2), origin, units)
        v3 == transform(Floats(vertex3), origin, units)
    IN IF normal_vector.data = << >> THEN Outcome("none", ts, normal_vector.fh)
       ELSE IF ~Utf8Valid(normal_vector.data) THEN Outcome("UnicodeDecodeError", ts, normal_vector.fh)
       ELSE IF startswith(normal_vector.data, ENDSOLID) THEN Outcome("none", ts, normal_vector.fh)
       ELSE IF ~Utf8Valid(line1.data) THEN Outcome("UnicodeDecodeError", ts, line1.fh)
       ELSE IF ~Utf8Valid(line2.data) THEN Outcome("UnicodeDecodeError", ts, line2.fh)
       ELSE IF ~Utf8Valid(line3.data) THEN Outcome("UnicodeDecodeError", ts, line3.fh)
       ELSE LET err == FirstError(<<FloatErrors(vertex1), FloatErrors(vertex2), FloatErrors(vertex3),
                                    v1.err, v2.err, v3.err>>)
            IN IF err # "none" THEN Outcome(err, ts, endfacet.fh)
               ELSE ascii_loop(endfacet.fh, Append(ts, Triangle(v1.v, v2.v, v3.v)), origin, units)

parse_ascii(f, origin, units) ==
    LET header == readline(f)
    IN ascii_loop(header.fh, << >>, origin, units)

HEADER_SIZE == 80

\* "for count in range(1, num_triangles)" from the given count on
RECURSIVE binary_loop(_, _, _, _, _, _)
binary_loop(f, num_triangles, c, ts, origin, units) ==
    LET normal_vector == read(f, 12)
        b1 == read(normal_vector.fh, 12)
        b2 == read(b1.fh, 12)
        b3 == read(b2.fh, 12)
        attribute == read(b3.fh, 2)
        short == \/ Len(normal_vector.data) < 12 \/ Len(b1.data) < 12 \/ Len(b2.data) < 12
                 \/ Len(b3.data) < 12 \/ Len(attribute.data) < 2
        v1 == transform(unpack_fff(b1.data), origin, units)
        v2 == transform(unpack_fff(b2.data), origin, units)
        v3 == transform(unpack_fff(b3.data), origin, units)
    IN IF ~InRange1(c, num_triangles) THEN Outcome("none", ts, f)
       ELSE IF short THEN Outcome("struct.error", ts, attribute.fh)
       ELSE LET err == FirstError(<<v1.err, v2.err, v3.err>>)
            IN IF err # "none" THEN Outcome(err, ts, attribute.fh)
               ELSE binary_loop(attribute.fh, num_triangles, c + 1, Append(ts, Triangle(v1.v, v2.v, v3.v)), origin, units)

parse_binary(f, origin, units) ==
    LET header == read(f, HEADER_SIZE)
        n == read(header.fh, 4)
    IN IF Len(n.data) < 4 THEN Outcome("struct.error", << >>, n.fh)
       ELSE binary_loop(n.fh, unpack_I(n.data), 1, << >>, origin, units)

----------------------------------------------------------------------------
(* main, lines 231-243: choosing and running a parser *)

\* header_prefix = peek(fh, 5).decode("utf-8")
Peek ==
    /\ pc = "open"
    /\ LET p == peek(fh, 5)
       IN /\ fh' = p.fh
          /\ IF Utf8Valid(p.data)
             THEN header_prefix' = p.data /\ pc' = "dispatch" /\ UNCHANGED error
             ELSE pc' = "failed" /\ error' = "UnicodeDecodeError" /\ UNCHANGED header_prefix
    /\ UNCHANGED <<triangles, count, run, min_vector, max_vector, line_args>>

\* header_prefix == "solid": try parse_ascii; UnicodeDecodeError is caught
ParseText ==
    /\ pc = "dispatch"
    /\ header_prefix = SOLID
    /\ LET r == parse_ascii(fh, origin_vector, unit_vectors)
       IN /\ fh' = r.fh
          /\ IF r.err = "none"
             THEN triangles' = r.triangles /\ pc' = "voxelize" /\ UNCHANGED error
             ELSE IF r.err = "UnicodeDecodeError"
             THEN pc' = "fallback" /\ UNCHANGED <<triangles, error>>
             ELSE pc' = "failed" /\ error' = r.err /\ UNCHANGED triangles
    /\ UNCHANGED <<header_prefix, count, run, min_vector, max_vector, line_args>>

\* except UnicodeDecodeError: fh.seek(0); triangles = parse_binary(...)
Fallback ==
    /\ pc = "fallback"
    /\ LET r == parse_binary(seek(fh, 0), origin_vector, unit_vectors)
       IN /\ fh' = r.fh
          /\ IF r.err = "none"
             THEN triangles' = r.triangles /\ pc' = "voxelize" /\ UNCHANGED error
             ELSE pc' = "failed" /\ error' = r.err /\ UNCHANGED triangles
    /\ UNCHANGED <<header_prefix, count, run, min_vector, max_vector, line_args>>

\* else: triangles = parse_binary(...)
ParseBinary ==
    /\ pc = "dispatch"
    /\ header_prefix # SOLID
    /\ LET r == parse_binary(fh, origin_vector, unit_vectors)
       IN /\ fh' = r.fh
          /\ IF r.err = "none"
             THEN triangles' = r.triangles /\ pc' = "voxelize" /\ UNCHANGED error
             ELSE pc' = "failed" /\ error' = r.err /\ UNCHANGED triangles
    /\ UNCHANGED <<header_prefix, count, run, min_vector, max_vector, line_args>>

----------------------------------------------------------------------------
(* main, lines 245-269: the voxelizing loop and the end of the run *)

Voxelize_fresh_dict ==
    /\ pc = "voxelize"
    /\ count < Len(triangles)
    /\ LET triangle == triangles[count + 1]
           after == compute_blocks(triangle, EmptyRun)
       IN /\ min_vector' = Vector_min(Vector_min(Vector_min(min_vector, triangle.v1), triangle.v2), triangle.v3)
          /\ max_vector' = Vector_max(Vector_max(Vector_max(max_vector, triangle.v1), triangle.v2), triangle.v3)
          /\ run' = after
          /\ IF after.err = "none"
             THEN count' = count + 1 /\ UNCHANGED <<pc, error>>
             ELSE pc' = "failed" /\ error' = after.err /\ UNCHANGED count
    /\ UNCHANGED <<fh, header_prefix, triangles, line_args>>

\* one iteration of "for count, triangle in enumerate(triangles)"
Voxelize ==
    /\ pc = "voxelize"
    /\ count < Len(triangles)
    /\ LET triangle == triangles[count + 1]
           after == compute_blocks(triangle, run)
       IN /\ min_vector' = Vector_min(Vector_min(Vector_min(min_vector, triangle.v1), triangle.v2), triangle.v3)
          /\ max_vector' = Vector_max(Vector_max(Vector_max(max_vector, triangle.v1), triangle.v2), triangle.v3)
          /\ run' = after
          /\ IF after.err = "none"
             THEN count' = count + 1 /\ UNCHANGED <<pc, error>>
             ELSE pc' = "failed" /\ error' = after.err /\ UNCHANGED count
    /\ UNCHANGED <<fh, header_prefix, triangles, line_args>>

\* the loop is exhausted: the blocks are submitted and the totals printed
Finish ==
    /\ pc = "voxelize"
    /\ count = Len(triangles)
    /\ pc' = "done"
    /\ UNCHANGED <<fh, header_prefix, triangles, count, run, min_vector, max_vector, error, line_args>>

----------------------------------------------------------------------------
(* The input files: STL text and binary files written from a few mesh      *)
(* triangles (format: lines 3-30), and damaged variants of them.  Mesh     *)
(* coordinates are given in halves: 3 stands for 1.5.                      *)

MeshTriangles ==
    { << <<0, 0, 0>>, <<2, 0, 0>>, <<0, 2, 0>> >>,
      << <<0, 0, 0>>, <<5, 2, 0>>, <<-2, 0, 3>> >>,
      << <<2, 0, 0>>, <<2, 0, 0>>, <<0, 1, 4>> >> }

FacetLists == UNION {[1..n -> MeshTriangles] : n \in 0..MaxFacets}

\* the decimal literal of h / 2
FormatNumber(h) ==
    LET n == Abs(h) \div 2
    IN (IF h < 0 THEN <<45>> ELSE << >>)
       \o (IF n >= 10 THEN <<48 + (n \div 10)>> ELSE << >>) \o <<48 + (n % 10)>>
       \o (IF h % 2 = 1 THEN <<46, 53>> ELSE << >>)

VertexLine(v) ==
    <<118, 101, 114, 116, 101, 120>> \o <<32>> \o FormatNumber(v[1]) \o <<32>> \o FormatNumber(v[2]) \o <<32>> \o FormatNumber(v[3]) \o <<10>>

FacetLines(t) ==
    <<<<102, 97, 99, 101, 116, 32, 110, 111, 114, 109, 97, 108, 32, 48, 32, 48, 32, 48, 10>>, <<111, 117, 116, 101, 114, 32, 108, 111, 111, 112, 10>>, VertexLine(t[1]), VertexLine(t[2]), VertexLine(t[3]), <<101, 110, 100, 108, 111, 111, 112, 10>>, <<101, 110, 100, 102, 97, 99, 101, 116, 10>>>>

RECURSIVE Concat(_, _, _)
Concat(seqs, lo, hi) ==
    IF lo > hi THEN << >>
    ELSE IF lo = hi THEN seqs[lo]
    ELSE Concat(seqs, lo, (lo + hi) \div 2) \o Concat(seqs, ((lo + hi) \div 2) + 1, hi)

Join(seqs) == Concat(seqs, 1, Len(seqs))

\* the lines of a well-formed text file
TextLines(ts) ==
    <<<<115, 111, 108, 105, 100, 32, 116, 10>>>> \o Join([i \in 1..Len(ts) |-> FacetLines(ts[i])]) \o <<<<101, 110, 100, 115, 111, 108, 105, 100, 32, 116, 10>>>>

RemoveLine(lines, i) == SubSeq(lines, 1, i - 1) \o SubSeq(lines, i + 1, Len(lines))
ReplaceLine(lines, i) == [lines EXCEPT ![i] = <<106, 117, 110, 107, 10>>]
\* a byte that is not UTF-8 before the newline of line i
CorruptLine(lines, i) == [lines EXCEPT ![i] = SubSeq(@, 1, Len(@) - 1) \o <<255, 10>>]

TextFiles ==
    UNION {LET lines == TextLines(ts)
           IN {Join(lines)}
              \cup {Join(RemoveLine(lines, i)) : i \in 1..Len(lines)}
              \cup {Join(ReplaceLine(lines, i)) : i \in 1..Len(lines)}
              \cup {Join(CorruptLine(lines, i)) : i \in 1..Len(lines)} : ts \in FacetLists}

\* struct.pack("<f", h / 2)
pack_f(h) ==
    LET a == Abs(h)
        n == BitLength(a)
        e == 127 + n - 2
        m == (a - Pow2(n - 1)) * Pow2(24 - n)
    IN IF h = 0 THEN <<0, 0, 0, 0>>
       ELSE <<m % 256, (m \div 256) % 256, (e % 2) * 128 + (m \div 65536),
              (IF h < 0 THEN 128 ELSE 0) + (e \div 2)>>

pack_fff(v) == pack_f(v[1]) \o pack_f(v[2]) \o pack_f(v[3])

\* struct.pack("<I", n) for n < 65536
pack_I(n) == <<n % 256, n \div 256, 0, 0>>

Zeros(n) == [i \in 1..n |-> 0]

\* normal (0,0,0), three vertices, attribute 0: 50 bytes
Record(t) == Zeros(12) \o pack_fff(t[1]) \o pack_fff(t[2]) \o pack_fff(t[3]) \o <<0, 0>>

\* 80-byte headers: zeros; "solid" and zeros; a header that reads as the
\* start of a text file with one facet; two that are not UTF-8 in their
\* first five bytes
Headers ==
    { Zeros(80),
      SOLID \o Zeros(75),
      Join(<<<<115, 111, 108, 105, 100, 10>>, <<102, 97, 99, 101, 116, 10>>, <<111, 117, 116, 101, 114, 32, 108, 111, 111, 112, 10>>, VertexLine(<<0, 0, 0>>), VertexLine(<<2, 0, 0>>),
             VertexLine(<<0, 2, 0>>), <<101, 110, 100, 108, 111, 111, 112, 10>>, <<101, 110, 100, 102, 97, 99, 101, 116, 10>>, <<32>>>>),
      <<255>> \o Zeros(79),
      <<115, 111, 108, 105, 195, 169>> \o Zeros(74) }

BinaryFiles ==
    {LET whole == x[1] \o pack_I(Len(x[2]) + x[3]) \o Join([i \in 1..Len(x[2]) |-> Record(x[2][i])])
     IN SubSeq(whole, 1, Len(whole) - x[4]) :
        x \in Headers \X FacetLists \X {0, 1} \X {0, 1}}

ShortFiles == {<< >>, <<115, 111, 108, 105>>, SOLID}

Files == TextFiles \cup BinaryFiles \cup ShortFiles

Init ==
    /\ fh \in {[bytes |-> b, pos |-> 0] : b \in Files}
    /\ pc = "open"
    /\ header_prefix = << >> /\ triangles = << >> /\ count = 0 /\ line_args = << >>
    /\ run = EmptyRun /\ min_vector = NoneVector /\ max_vector = NoneVector /\ error = "none"

Next == Peek \/ ParseText \/ Fallback \/ ParseBinary \/ Voxelize \/ Finish

Spec == Init /\ [][Next]_vars

----------------------------------------------------------------------------
(* The voxelizer on its own: one segment, one triangle *)

NoFile == [bytes |-> << >>, pos |-> 0]

XYRange(n) == (-n)..n
Starts == {<<0, 0, 0>>, <<1, 0, 1>>}

LineInputs ==
    {<<a, <<a[1] + d[1], a[2] + d[2], a[3] + d[3]>> >> :
        a \in Starts, d \in XYRange(MaxSpan) \X (0..MaxSpan) \X {-1, 0, 1}}

InitLine ==
    /\ line_args \in LineInputs
    /\ pc = "line"
    /\ fh = NoFile /\ header_prefix = << >> /\ triangles = << >> /\ count = 0
    /\ run = EmptyRun /\ min_vector = NoneVector /\ max_vector = NoneVector /\ error = "none"

\* compute_line_blocks(a, b, blocks) on an empty dict
LineCall ==
    /\ pc = "line"
    /\ run' = compute_line_blocks(line_args[1], line_args[2], run)
    /\ pc' = "done"
    /\ UNCHANGED <<fh, header_prefix, triangles, count, min_vector, max_vector, error, line_args>>

SpecLine == InitLine /\ [][LineCall]_vars

InitLoop(ts) ==
    /\ triangles = ts
    /\ pc = "voxelize"
    /\ fh = NoFile /\ header_prefix = << >> /\ count = 0 /\ line_args = << >>
    /\ run = EmptyRun /\ min_vector = NoneVector /\ max_vector = NoneVector /\ error = "none"

\* triangles with at most two distinct vertex positions P and Q
DegenerateTriangles ==
    {IF slot = 1 THEN Triangle(PQ[2], PQ[1], PQ[1])
     ELSE IF slot = 2 THEN Triangle(PQ[1], PQ[2], PQ[1])
     ELSE Triangle(PQ[1], PQ[1], PQ[2]) :
        slot \in 1..3,
        PQ \in {<<a, <<a[1] + d[1], a[2] + d[2], a[3] + d[3]>> >> :
                    a \in Starts, d \in XYRange(MaxDegenerate) \X XYRange(MaxDegenerate) \X {-1, 0, 1}}}

InitDegenerate == \E t \in DegenerateTriangles : InitLoop(<<t>>)

SpecDegenerate == InitDegenerate /\ [][Voxelize \/ Finish]_vars

GeneralTriangles ==
    {Triangle(a, b, c) :
        a \in Starts,
        b \in XYRange(MaxTri) \X XYRange(MaxTri) \X {0, 1},
        c \in XYRange(MaxTri) \X XYRange(MaxTri) \X {0, 1}}

InitTri == \E t \in GeneralTriangles : InitLoop(<<t>>)

SpecTri == InitTri /\ [][Voxelize \/ Finish]_vars

----------------------------------------------------------------------------
(* Properties of the voxelizer *)

Steps(a, b) == SetMax({Abs(b[i] - a[i]) : i \in 1..3})

\* round(a + s * (b - a) / steps) in exact arithmetic
ExactPoint(a, b, s) == [i \in 1..3 |-> RoundHalfEven(a[i] * Steps(a, b) + s * (b[i] - a[i]), Steps(a, b))]

LineReturned == pc = "done" /\ line_args # << >>

\* C5 as stated: compute_line_blocks(a, b) adds exactly the voxels
\* round(a + s * (b - a) / steps), s = 0 .. steps-1 (the one voxel a when a = b)
C5_AsStated ==
    LineReturned =>
        LET a == line_args[1]
            b == line_args[2]
        IN IF a = b THEN run.blocks = <<a>>
           ELSE /\ Keys(run.blocks) = {ExactPoint(a, b, s) : s \in 0..(Steps(a, b) - 1)}
                /\ Cardinality(Keys(run.blocks)) = Steps(a, b)
                /\ a \in Keys(run.blocks) /\ b \notin Keys(run.blocks)

\* C5 (amended): compute_line_blocks(a, b) adds the one voxel a when a = b;
\* otherwise it adds exactly steps distinct voxels, a among them and b not,
\* the s-th of which is an integer point nearest to a + s * (b - a) / steps
\* (every coordinate within 1/2 of it, so it is the rounded point unless a
\* coordinate of that point lies exactly halfway between two integers)
C5_LineVoxels ==
    LineReturned =>
        LET a == line_args[1]
            b == line_args[2]
            steps == Steps(a, b)
        IN IF a = b THEN run.blocks = <<a>>
           ELSE /\ Len(run.blocks) = steps
                /\ Cardinality(Keys(run.blocks)) = steps
                /\ a \in Keys(run.blocks) /\ b \notin Keys(run.blocks)
                /\ \A s \in 0..(steps - 1) : \A i \in 1..3 :
                      Abs(2 * (steps * (run.blocks[s + 1][i] - a[i]) - s * (b[i] - a[i]))) <= steps

\* the segment (0,0,0)-(22,15,0): step 11 lands on y = 7, the exact point is (11, 7.5, 0)
C5_Witness ==
    /\ LineReturned
    /\ line_args = << <<0, 0, 0>>, <<22, 15, 0>> >>
    /\ Len(run.blocks) = 22
    /\ run.blocks[12] = <<11, 7, 0>>

Voxelized == pc = "done" /\ Len(triangles) = 1 /\ count = 1

Vertices(t) == {t.v1, t.v2, t.v3}

\* C6: a triangle whose three vertices are identical yields exactly one voxel, that vertex
C6_PointTriangle ==
    (Voxelized /\ Cardinality(Vertices(triangles[1])) = 1) => run.blocks = <<triangles[1].v1>>

C6_Witness ==
    /\ Voxelized
    /\ triangles[1] = Triangle(<<1, 0, 1>>, <<1, 0, 1>>, <<1, 0, 1>>)
    /\ run.blocks = << <<1, 0, 1>> >>

LineKeys(a, b) == Keys(compute_line_blocks(a, b, EmptyRun).blocks)

\* C7 as stated: with exactly two distinct vertex positions P and Q every voxel
\* belongs to compute_line_blocks(P, Q), compute_line_blocks(Q, P) or {P, Q}
C7_AsStated ==
    (Voxelized /\ Cardinality(Vertices(triangles[1])) = 2) =>
        \A P \in Vertices(triangles[1]) : \A Q \in Vertices(triangles[1]) \ {P} :
            Keys(run.blocks) \subseteq (LineKeys(P, Q) \cup LineKeys(Q, P) \cup {P, Q})

\* some real t in [0, 1] has |c[i] - (P[i] + t * (Q[i] - P[i]))| <= 1 on every axis
NearSegment(c, P, Q) ==
    LET axes == {i \in 1..3 : Q[i] # P[i]}
        lows == {<<0, 1>>} \cup
                {IF Q[i] > P[i] THEN <<c[i] - P[i] - 1, Q[i] - P[i]>>
                                ELSE <<-(c[i] - P[i] + 1), P[i] - Q[i]>> : i \in axes}
        highs == {<<1, 1>>} \cup
                 {IF Q[i] > P[i] THEN <<c[i] - P[i] + 1, Q[i] - P[i]>>
                                 ELSE <<-(c[i] - P[i] - 1), P[i] - Q[i]>> : i \in axes}
    IN /\ \A i \in (1..3) \ axes : Abs(c[i] - P[i]) <= 1
       /\ \A lo \in lows : \A hi \in highs : lo[1] * hi[2] <= hi[1] * lo[2]

InBox(c, P, Q) == \A i \in 1..3 : Min2(P[i], Q[i]) <= c[i] /\ c[i] <= Max2(P[i], Q[i])

\* C7 (amended): with exactly two distinct vertex positions P and Q every voxel
\* lies in the bounding box of P and Q and within one unit, on every axis, of
\* a point of the straight segment PQ
C7_NearLine ==
    (Voxelized /\ Cardinality(Vertices(triangles[1])) = 2) =>
        \A P \in Vertices(triangles[1]) : \A Q \in Vertices(triangles[1]) \ {P} :
            \A c \in Keys(run.blocks) : InBox(c, P, Q) /\ NearSegment(c, P, Q)

\* (0,0,0),(0,0,0),(4,1,0) emits (2,1,0), which neither rasterized line contains
C7_Witness ==
    /\ Voxelized
    /\ triangles[1] = Triangle(<<0, 0, 0>>, <<0, 0, 0>>, <<4, 1, 0>>)
    /\ <<2, 1, 0>> \in Keys(run.blocks)
    /\ <<2, 1, 0>> \notin LineKeys(<<0, 0, 0>>, <<4, 1, 0>>) \cup LineKeys(<<4, 1, 0>>, <<0, 0, 0>>)

\* C9: no division by zero: every max_delta a stepping branch uses is >= 1,
\* in compute_triangle_blocks and in the inner compute_line_blocks calls
C9_NoZeroDivision ==
    /\ run.err = "none"
    /\ error # "ZeroDivisionError"
    /\ \A m \in run.deltas : m >= 1

\* a triangle with a coincident pair whose fan takes the stepping branch with two step counts
C9_Witness ==
    /\ Voxelized
    /\ triangles[1].v1 = triangles[1].v3
    /\ triangles[1].v1 # triangles[1].v2
    /\ {1, 2} \subseteq run.deltas

\* C10: the voxels of a triangle contain its three vertices, so there is at least one
C10_VerticesCovered ==
    Voxelized => (Vertices(triangles[1]) \subseteq Keys(run.blocks) /\ Len(run.blocks) >= 1)

C10_Witness ==
    /\ Voxelized
    /\ Cardinality(Vertices(triangles[1])) = 3
    /\ Vertices(triangles[1]) \subseteq Keys(run.blocks)

----------------------------------------------------------------------------
(* The STL text format as the source states it (lines 18-28): a solid     *)
(* line, facets of seven lines each, an endsolid line.                     *)

\* the lines of a stream, each with its newline
Lines(b) ==
    LET starts == {i \in 1..Len(b) : i = 1 \/ b[i - 1] = 10}
        StartOf(k) == CHOOSE i \in starts : Cardinality({j \in starts : j < i}) = k - 1
        EndOf(i) == IF \E j \in i..Len(b) : b[j] = 10
                    THEN CHOOSE j \in i..Len(b) : b[j] = 10 /\ \A m \in i..(j - 1) : b[m] # 10
                    ELSE Len(b)
    IN [k \in 1..Cardinality(starts) |-> SubSeq(b, StartOf(k), EndOf(StartOf(k)))]

IsFloats(tokens) == \A i \in 1..Len(tokens) : float(tokens[i]).kind # "ValueError"

IsSolidLine(l) == LET w == split(l) IN Len(w) >= 1 /\ w[1] = SOLID
IsFacetLine(l) ==
    LET w == split(l)
    IN Len(w) = 5 /\ w[1] = <<102, 97, 99, 101, 116>> /\ w[2] = <<110, 111, 114, 109, 97, 108>> /\ IsFloats(SubSeq(w, 3, 5))
IsOuterLoopLine(l) == split(l) = <<<<111, 117, 116, 101, 114>>, <<108, 111, 111, 112>>>>
IsVertexLine(l) ==
    LET w == split(l)
    IN Len(w) = 4 /\ w[1] = <<118, 101, 114, 116, 101, 120>> /\ IsFloats(SubSeq(w, 2, 4))
IsEndLoopLine(l) == split(l) = <<<<101, 110, 100, 108, 111, 111, 112>>>>
IsEndFacetLine(l) == split(l) = <<<<101, 110, 100, 102, 97, 99, 101, 116>>>>
IsEndSolidLine(l) == LET w == split(l) IN Len(w) >= 1 /\ w[1] = ENDSOLID

WellFormedText(b) ==
    LET ls == Lines(b)
        n == Len(ls)
    IN /\ Utf8Valid(b)
       /\ n >= 2 /\ (n - 2) % 7 = 0
       /\ IsSolidLine(ls[1])
       /\ IsEndSolidLine(ls[n])
       /\ \A k \in 0..(((n - 2) \div 7) - 1) :
             /\ IsFacetLine(ls[2 + (7 * k)])
             /\ IsOuterLoopLine(ls[3 + (7 * k)])
             /\ IsVertexLine(ls[4 + (7 * k)])
             /\ IsVertexLine(ls[5 + (7 * k)])
             /\ IsVertexLine(ls[6 + (7 * k)])
             /\ IsEndLoopLine(ls[7 + (7 * k)])
             /\ IsEndFacetLine(ls[8 + (7 * k)])

\* the facets a stream holds: its "facet normal" lines
FacetCount(b) == LET ls == Lines(b) IN Cardinality({k \in 1..Len(ls) : IsFacetLine(ls[k])})

\* the binary file of a facet list (lines 7-15)
BinaryFileOf(ts) ==
    Zeros(HEADER_SIZE) \o pack_I(Len(ts)) \o Join([i \in 1..Len(ts) |-> Record(ts[i])])

\* the text file of a facet list
TextFileOf(ts) == Join(TextLines(ts))

----------------------------------------------------------------------------
(* Properties of main's choice of parser and of the parsers *)

\* the stream of the run, read from offset 0
Whole == [bytes |-> fh.bytes, pos |-> 0]

AsText == parse_ascii(Whole, origin_vector, unit_vectors)
AsBinary == parse_binary(Whole, origin_vector, unit_vectors)

\* a parser was chosen and has returned or raised, or the run failed earlier
PastParsing == pc \in {"voxelize", "done", "failed"}

\* C1: a stream whose first five bytes are not "solid" (valid UTF-8 or not)
\* is parsed by parse_binary from offset 0: peek leaves the position at 0,
\* and the stream position, the triangles and the error are those of
\* parse_binary, never an error raised before a parser ran.
C1_AsStated ==
    /\ pc = "dispatch" => fh.pos = 0
    /\ (PastParsing /\ ~startswith(fh.bytes, SOLID)) =>
          /\ fh = AsBinary.fh
          /\ IF AsBinary.err = "none"
             THEN triangles = AsBinary.triangles
             ELSE pc = "failed" /\ error = AsBinary.err

\* text parsing of the stream fails to decode it
TextDecodeFails == startswith(fh.bytes, SOLID) /\ AsText.err = "UnicodeDecodeError"

\* C2: when the stream starts with "solid" and parse_ascii raises
\* UnicodeDecodeError, the run does not fail there; after the fallback the
\* stream position, the triangles and the error are exactly those of
\* parse_binary from offset 0, with none of the text parser's triangles.
C2_FallbackToBinary ==
    TextDecodeFails =>
        /\ pc = "fallback" => error = "none" /\ triangles = << >>
        /\ PastParsing =>
              /\ fh = AsBinary.fh
              /\ IF AsBinary.err = "none"
                 THEN triangles = AsBinary.triangles /\ (pc = "failed" => error = run.err)
                 ELSE pc = "failed" /\ error = AsBinary.err /\ triangles = << >>

C2_Witness ==
    /\ TextDecodeFails
    /\ AsText.triangles # << >>
    /\ pc = "done"
    /\ triangles # << >>
    /\ triangles = AsBinary.triangles
    /\ \A i \in 1..Len(triangles) : triangles[i] # AsText.triangles[1]

\* C3: a stream of an 80-byte header, a count N and N well-formed records
\* yields N triangles in record order, the triangles the equivalent text
\* input yields.
C3_AsStated ==
    \A ts \in FacetLists :
        (PastParsing /\ fh.bytes = BinaryFileOf(ts)) =>
            /\ Len(triangles) = Len(ts)
            /\ triangles = parse_ascii([bytes |-> TextFileOf(ts), pos |-> 0], origin_vector, unit_vectors).triangles

\* C4: parse_ascii returns normally only for a stream that follows the text
\* grammar, and then with every facet of the stream.
C4_AsStated ==
    (pc \in {"voxelize", "done"} /\ header_prefix = SOLID /\ AsText.err = "none") =>
        /\ WellFormedText(fh.bytes)
        /\ Len(triangles) = FacetCount(fh.bytes)

----------------------------------------------------------------------------
(* Properties of the accumulation over a run *)

\* the voxels a triangle produces on its own
Own(t) == Keys(compute_blocks(t, EmptyRun).blocks)

\* C8: while main processes the triangles the voxel set only grows, holds
\* every voxel once, and after each triangle (so after the last) equals the
\* union of the sets the processed triangles produce on their own.
C8_Accumulation ==
    /\ [](pc \in {"voxelize", "done"} =>
            /\ Keys(run.blocks) = UNION {Own(triangles[i]) : i \in 1..count}
            /\ Len(run.blocks) = Cardinality(Keys(run.blocks)))
    /\ [][Keys(run.blocks) \subseteq Keys(run'.blocks)]_vars

C8_Witness ==
    /\ pc = "done"
    /\ count >= 2
    /\ triangles[1] # triangles[2]
    /\ Own(triangles[1]) \cap Own(triangles[2]) # {}
    /\ ~(Own(triangles[2]) \subseteq Own(triangles[1]))
    /\ Keys(run.blocks) = UNION {Own(triangles[i]) : i \in 1..count}

====
